---- MODULE Spec2Model ----
(***************************************************************************)
(* JobDB: the job_listings table behind DatabaseManager                    *)
(* (src/database/db_manager.py), the scraping adapters (src/scrapers) and  *)
(* the orchestrator (src/main.py).                                         *)
(*                                                                         *)
(* Names of the specification document and of the code:                    *)
(*   employer      = company          external_id  = job_id                *)
(*   first_seen_at = scraped_date     last_seen_at = last_updated          *)
(*   upsert_batch  = add_or_update_jobs                                    *)
(*   retire_missing = mark_inactive_jobs                                   *)
(* Columns that behave like title but carry no constraint (department,     *)
(* location, degree, experience_level, description, post_date, url) are    *)
(* left out of the rows.  datetime.now() is a clock that does not go back; *)
(* one run of main is short enough to read a single value from it.         *)
(***************************************************************************)
EXTENDS Integers, Sequences, FiniteSets, TLC

VARIABLES
  store,            \* the table job_listings, as committed
  now,              \* datetime.now()
  last,             \* the last call of the store and what its caller got back
  scrapers_to_run,  \* main: the adapters of this run, in order
  pc,               \* main: "main", "scrape", "reconcile", "done" or "crashed"
  scraper,          \* run_scraper: the adapter at work
  jobs,             \* scrape_jobs: the listings collected so far
  offset,           \* scrape_jobs: the offset of the next page
  has_more,         \* scrape_jobs: the loop condition
  exc,              \* the exception scrape_jobs raised, or None
  run,              \* run_scraper: what the pass just finished did
  reports           \* main: what run_scraper returned, pass after pass

runvars == <<scrapers_to_run, pc, scraper, jobs, offset, has_more, exc, run, reports>>
vars == <<store, now, last, scrapers_to_run, pc, scraper, jobs, offset, has_more,
          exc, run, reports>>

(***************************************************************************)
(* Bounds of the model.                                                    *)
(***************************************************************************)
MaxTime == 1
MaxBatch == 2
MaxScrapers == 2
MaxPages == 2

(***************************************************************************)
(* Values.  None is Python's None; Absent is a key the dictionary does not *)
(* have; a present timestamp t is <<t>>.                                   *)
(***************************************************************************)
None == "None"
Absent == <<>>
JobIds == {"1", "2"}
Titles == {"X", "Y"}
Companies == {"ASML", "Micron"}

SeqsUpTo(S, n) == UNION {[1..m -> S] : m \in 0..n}

(***************************************************************************)
(* Job dictionaries.  MicronScraper.parse_job stamps every dictionary with *)
(* 'scraped_date': datetime.now() at the time of the scrape; a dictionary  *)
(* built by hand for the other employer carries no scraped_date key.  The  *)
(* id and the title are the source's and may be None.                      *)
(***************************************************************************)
Job(job_id, company, title, scraped_date) ==
  [job_id |-> job_id, company |-> company, title |-> title,
   scraped_date |-> scraped_date]

ScrapedDates(company, t) ==
  IF company = "Micron" THEN {<<t>>} ELSE {Absent}

JobsOf(company, sd) ==
  {Job(j, company, ti, sd) : j \in JobIds, ti \in Titles \cup {None}}
    \cup {Job(None, company, "X", sd)}

JobDicts(t) ==
  UNION {UNION {JobsOf(c, sd) : sd \in ScrapedDates(c, t)} : c \in Companies}

\* the batches one fetch of one employer hands to the store
Batches(t) ==
  UNION {UNION {SeqsUpTo(JobsOf(c, sd), MaxBatch) : sd \in ScrapedDates(c, t)} :
         c \in Companies}

(***************************************************************************)
(* The table job_listings.  A table is the sequence of its rows in insert  *)
(* order; the autoincremented id of a row is its position.                 *)
(***************************************************************************)
\* JobListing(**job_dict): scraped_date and last_updated default to now
NewRow(job, t) ==
  [job_id |-> job.job_id, company |-> job.company, title |-> job.title,
   scraped_date |-> IF job.scraped_date = Absent THEN t ELSE job.scraped_date[1],
   last_updated |-> t]

\* an update that also restamps scraped_date
SetAttrsRestamp(row, job, t) ==
  [job_id |-> job.job_id, company |-> job.company, title |-> job.title,
   scraped_date |-> t, last_updated |-> t]

\* for key, value in job_dict.items(): setattr(job, key, value);
\* job.last_updated = datetime.now()
SetAttrs(row, job, t) ==
  [job_id |-> job.job_id, company |-> job.company, title |-> job.title,
   scraped_date |-> IF job.scraped_date = Absent THEN row.scraped_date
                    ELSE job.scraped_date[1],
   last_updated |-> t]

\* session.query(JobListing).filter_by(job_id=job_id).first(): the position
\* of the first row with that job_id, 0 when there is none
Find(rows, job_id) ==
  LET hits == {i \in 1..Len(rows) : rows[i].job_id = job_id}
  IN IF hits = {} THEN 0 ELSE CHOOSE i \in hits : \A k \in hits : i <= k

\* a table whose job_id column is not declared unique
NoUniqueCheck(rows) == TRUE

\* job_id = Column(..., unique=True, ...)
UniqueOk(rows) ==
  \A i, k \in 1..Len(rows) : rows[i].job_id = rows[k].job_id => i = k

\* nullable=False on job_id, company and title
NotNullOk(rows) ==
  \A i \in 1..Len(rows) :
    rows[i].job_id # None /\ rows[i].company # None /\ rows[i].title # None

\* what a flush (an autoflush before a query, or the commit) accepts
FlushOk(rows) == UniqueOk(rows) /\ NotNullOk(rows)

\* an exception handler that leaves the session's work in the table
NoRollback(before, rows) == rows

\* except Exception: session.rollback(); raise
Rollback(before, rows) == before

(***************************************************************************)
(* add_or_update_jobs: the loop over the batch inside one session.  sess   *)
(* is the transaction's view of the table with the two result lists.  A    *)
(* listing the table's constraints reject fails the flush that follows it; *)
(* commitFails is a storage error at session.commit().                     *)
(***************************************************************************)
Session(rows) == [rows |-> rows, new |-> <<>>, upd |-> <<>>, ok |-> TRUE]

UpsertOne(sess, job, t) ==
  IF job.job_id = None THEN sess                       \* if not job_id: continue
  ELSE
    LET i == Find(sess.rows, job.job_id)
        rows == IF i # 0
                THEN [sess.rows EXCEPT ![i] = SetAttrs(sess.rows[i], job, t)]
                ELSE Append(sess.rows, NewRow(job, t))
    IN IF ~FlushOk(rows) THEN [sess EXCEPT !.ok = FALSE]
       ELSE IF i # 0
            THEN [sess EXCEPT !.rows = rows, !.upd = Append(sess.upd, job.job_id)]
            ELSE [sess EXCEPT !.rows = rows, !.new = Append(sess.new, job.job_id)]

RECURSIVE UpsertLoop(_, _, _, _, _)
UpsertLoop(sess, batch, k, commitFails, t) ==
  IF ~sess.ok THEN sess
  ELSE IF k > Len(batch) THEN [sess EXCEPT !.ok = ~commitFails]
  ELSE UpsertLoop(UpsertOne(sess, batch[k], t), batch, k + 1, commitFails, t)

\* what the caller of the last call holds: the call and its return value, or
\* the exception alone.  again: the batch was the previous call's batch;
\* dirty: the session held changes when the exception was raised
Call(op, batch, key, new, upd, again) ==
  [op |-> op, batch |-> batch, key |-> key, ok |-> TRUE, new |-> new, upd |-> upd,
   again |-> again, dirty |-> FALSE]

Raised(op, dirty) ==
  [op |-> op, batch |-> <<>>, key |-> None, ok |-> FALSE, new |-> <<>>, upd |-> <<>>,
   again |-> FALSE, dirty |-> dirty]

\* what a caller may pass next: any batch once the previous call's result has
\* been dropped, or the previous batch again
Submittable ==
  IF last.op = "none" THEN Batches(now)
  ELSE IF last.op = "add_or_update_jobs" /\ last.ok THEN {last.batch}
  ELSE {}

AddOrUpdateJobs(batch, commitFails) ==
  LET sess == UpsertLoop(Session(store), batch, 1, commitFails, now)
  IN /\ store' = IF sess.ok THEN sess.rows ELSE Rollback(store, sess.rows)
     /\ last' = IF sess.ok
                THEN Call("add_or_update_jobs", batch, None, sess.new, sess.upd,
                          last.op = "add_or_update_jobs")
                ELSE Raised("add_or_update_jobs", sess.rows # store)
     /\ UNCHANGED now

\* add_job: one insert and the commit
AddJob(job, fail) ==
  LET rows == Append(store, NewRow(job, now))
      ok == ~fail /\ FlushOk(rows)
  IN /\ store' = IF ok THEN rows ELSE Rollback(store, rows)
     /\ last' = IF ok THEN Call("add_job", <<job>>, None, <<>>, <<>>, FALSE)
                ELSE Raised("add_job", TRUE)
     /\ UNCHANGED now

\* update_job: ValueError when the job_id is not found
UpdateJob(job_id, job, fail) ==
  LET i == Find(store, job_id)
      rows == IF i = 0 THEN store
              ELSE [store EXCEPT ![i] = SetAttrs(store[i], job, now)]
      ok == i # 0 /\ ~fail /\ FlushOk(rows)
  IN /\ store' = IF ok THEN rows ELSE Rollback(store, rows)
     /\ last' = IF ok THEN Call("update_job", <<job>>, job_id, <<>>, <<>>, FALSE)
                ELSE Raised("update_job", i # 0)
     /\ UNCHANGED now

NoCall == Call("none", <<>>, None, <<>>, <<>>, FALSE)

\* the caller drops the result of its last call
Forget ==
  /\ last.op # "none"
  /\ last' = NoCall
  /\ UNCHANGED <<store, now>>

\* datetime.now() moves on
Tick ==
  /\ now < MaxTime
  /\ now' = now + 1
  /\ UNCHANGED <<store, last>>

(***************************************************************************)
(* The adapters.  A page request is answered by one response:              *)
(*   "network_error"  requests.get/post raises (no connection, timeout)    *)
(*   "http_error"     a non-2xx status: raise_for_status raises HTTPError  *)
(*   "bad_body"       the body is not the JSON expected: response.json()   *)
(*                    raises, or the top level lacks "widgets"             *)
(*   "no_fields"      JSON without the total and the list of jobs          *)
(*   "ok"             the reported total and the jobs of the page          *)
(* A raw job has the source's ats_job_id, id and name; Missing is a key    *)
(* the JSON object does not have.                                          *)
(***************************************************************************)
Missing == "missing"
Adapters == {"ASML", "Micron"}

MicronLimit == 10
ASMLLimit == 100
Limit(a) == IF a = "Micron" THEN MicronLimit ELSE ASMLLimit

RawJobs ==
  [ats_job_id : {None, "1"}, id : {"2"}, name : {"X", Missing}]

Totals(a) == {k * Limit(a) : k \in 0..(MaxPages + 1)}

\* the responses to one request, with at most room jobs on the page
Responses(a, room) ==
  {[kind |-> k, total |-> 0, content |-> <<>>] :
     k \in {"network_error", "http_error", "bad_body", "no_fields"}}
  \cup {[kind |-> "ok", total |-> n, content |-> c] :
          n \in Totals(a), c \in SeqsUpTo(RawJobs, room)}

\* job.get("ats_job_id") or job.get("id")
MicronJobId(raw) == IF raw.ats_job_id # None THEN raw.ats_job_id ELSE raw.id

\* MicronScraper.parse_job: job.get(...) gives None for a key that is not there
MicronParseJob(raw, t) ==
  Job(MicronJobId(raw), "Micron", IF raw.name = Missing THEN None ELSE raw.name, <<t>>)

\* ASMLScraper.parse_job: return job["name"], a string and no dictionary
ASMLParseJob(raw) == [str |-> raw.name]

RECURSIVE MicronParseAll(_, _, _)
MicronParseAll(content, k, t) ==
  IF k > Len(content) THEN <<>>
  ELSE <<MicronParseJob(content[k], t)>> \o MicronParseAll(content, k + 1, t)

\* the jobs appended before job["name"] raises KeyError, and whether it did
RECURSIVE ASMLParseAll(_, _)
ASMLParseAll(content, k) ==
  IF k > Len(content) THEN [jobs |-> <<>>, error |-> FALSE]
  ELSE IF content[k].name = Missing THEN [jobs |-> <<>>, error |-> TRUE]
  ELSE LET r == ASMLParseAll(content, k + 1)
       IN [jobs |-> <<ASMLParseJob(content[k])>> \o r.jobs, error |-> r.error]

\* the locals of scrape_jobs after one more turn of its loop
Loop(js, off, more, e) == [jobs |-> js, offset |-> off, has_more |-> more, exc |-> e]

\* ASMLScraper.scrape_jobs, one turn: only HTTPError and, around the
\* extraction, KeyError and IndexError are caught
ASMLPage(js, off, resp) ==
  IF resp.kind = "network_error" THEN Loop(js, off, TRUE, "ConnectionError")
  ELSE IF resp.kind = "http_error" THEN Loop(js, off, FALSE, None)
  ELSE IF resp.kind = "bad_body" THEN Loop(js, off, TRUE, "ValueError")
  ELSE IF resp.kind = "no_fields" THEN Loop(js, off, FALSE, None)
  ELSE LET r == ASMLParseAll(resp.content, 1)
       IN IF r.error THEN Loop(js \o r.jobs, off, FALSE, None)
          ELSE Loop(js \o r.jobs, off + ASMLLimit, ~(off + ASMLLimit >= resp.total), None)

\* MicronScraper.scrape_jobs, one turn: except HTTPError, except Exception
MicronPage(js, off, resp, t) ==
  IF resp.kind \in {"network_error", "http_error", "bad_body"}
  THEN Loop(js, off, FALSE, None)
  ELSE IF resp.kind = "no_fields"    \* data.get("count", 0), data.get("positions", [])
  THEN Loop(js, off + MicronLimit, ~(off + MicronLimit >= 0), None)
  ELSE Loop(js \o MicronParseAll(resp.content, 1, t), off + MicronLimit,
            ~(off + MicronLimit >= resp.total), None)

Page(a, js, off, resp, t) ==
  IF a = "Micron" THEN MicronPage(js, off, resp, t) ELSE ASMLPage(js, off, resp)

(***************************************************************************)
(* run_scraper and main.                                                   *)
(***************************************************************************)
\* job["job_id"] needs a dictionary: on a string it raises TypeError
IsDict(job) == "job_id" \in DOMAIN job

\* job_ids = [job["job_id"] for job in jobs]
JobIdsOf(js) == [k \in 1..Len(js) |-> js[k].job_id]

\* db_manager.mark_inactive_jobs(company, job_ids): DatabaseManager defines no
\* such method and JobListing has no is_active column, so the call raises
\* AttributeError and no row changes
MarkInactiveJobs(rows, company, job_ids) ==
  [ok |-> FALSE, rows |-> rows, retired |-> <<>>]

\* a run_scraper without its except clause
Propagate(step, new) == [raised |-> step # "none", result |-> <<>>]

\* try: ... return new_jobs / except Exception: log; return []
Handle(step, new) ==
  [raised |-> FALSE, result |-> IF step = "none" THEN new ELSE <<>>]

NoRun ==
  [company |-> None, step |-> "none", fetched |-> <<>>, upserted |-> FALSE,
   new |-> <<>>, upd |-> <<>>, retire_called |-> FALSE, observed |-> <<>>,
   before |-> <<>>, retired |-> <<>>]

\* main: for scraper in scrapers_to_run: run_scraper(scraper, db_manager),
\* up to the first request of scrape_jobs
StartRun ==
  /\ pc = "main"
  /\ Len(reports) < Len(scrapers_to_run)
  /\ scraper' = scrapers_to_run[Len(reports) + 1]
  /\ jobs' = <<>>
  /\ offset' = 0
  /\ has_more' = TRUE
  /\ exc' = None
  /\ run' = NoRun
  /\ pc' = "scrape"
  /\ UNCHANGED <<store, now, last, scrapers_to_run, reports>>

\* one turn of the while loop of scrape_jobs
FetchPage(resp) ==
  /\ pc = "scrape"
  /\ has_more /\ exc = None
  /\ offset < MaxPages * Limit(scraper)
  /\ LET l == Page(scraper, jobs, offset, resp, now)
     IN /\ jobs' = l.jobs
        /\ offset' = l.offset
        /\ has_more' = l.has_more
        /\ exc' = l.exc
        /\ pc' = IF l.has_more /\ l.exc = None THEN "scrape" ELSE "reconcile"
  /\ UNCHANGED <<store, now, last, scrapers_to_run, scraper, run, reports>>

\* run_scraper from the return of scrape_jobs to its own return
Reconcile(commitFails) ==
  /\ pc = "reconcile"
  /\ LET dicts == \A k \in 1..Len(jobs) : IsDict(jobs[k])
         sess == UpsertLoop(Session(store), jobs, 1, commitFails, now)
         upserted == exc = None /\ dicts /\ sess.ok
         rows == IF upserted THEN sess.rows
                 ELSE IF exc = None /\ dicts THEN Rollback(store, sess.rows)
                 ELSE store
         retire == MarkInactiveJobs(rows, scraper, JobIdsOf(jobs))
         step == IF exc # None THEN "fetch"
                 ELSE IF ~dicts THEN "job_ids"
                 ELSE IF ~sess.ok THEN "upsert"
                 ELSE IF ~retire.ok THEN "retire"
                 ELSE "none"
         h == Handle(step, IF upserted THEN sess.new ELSE <<>>)
     IN /\ store' = IF upserted THEN retire.rows ELSE rows
        /\ last' = IF exc # None \/ ~dicts THEN last
                   ELSE IF sess.ok
                   THEN Call("add_or_update_jobs", jobs, None, sess.new, sess.upd, FALSE)
                   ELSE Raised("add_or_update_jobs", sess.rows # store)
        /\ run' = [company |-> scraper, step |-> step, fetched |-> jobs,
                   upserted |-> upserted,
                   new |-> IF upserted THEN sess.new ELSE <<>>,
                   upd |-> IF upserted THEN sess.upd ELSE <<>>,
                   retire_called |-> upserted,
                   observed |-> IF upserted THEN JobIdsOf(jobs) ELSE <<>>,
                   before |-> IF upserted THEN rows ELSE <<>>,
                   retired |-> IF upserted THEN retire.retired ELSE <<>>]
        /\ reports' = IF h.raised THEN reports
                      ELSE Append(reports, [failed |-> step # "none",
                                            result |-> h.result])
        /\ pc' = IF h.raised THEN "crashed" ELSE "main"
  /\ UNCHANGED <<now, scrapers_to_run, scraper, jobs, offset, has_more, exc>>

\* main: the loop is over
Finish ==
  /\ pc = "main"
  /\ Len(reports) = Len(scrapers_to_run)
  /\ pc' = "done"
  /\ UNCHANGED <<store, now, last, scrapers_to_run, scraper, jobs, offset, has_more,
                 exc, run, reports>>

InitDB ==
  /\ store = <<>>
  /\ now = 0
  /\ last = NoCall

Init ==
  /\ InitDB
  /\ scrapers_to_run = <<>>
  /\ pc = "done"
  /\ scraper = None
  /\ jobs = <<>>
  /\ offset = 0
  /\ has_more = FALSE
  /\ exc = None
  /\ run = NoRun
  /\ reports = <<>>

Next ==
  /\ \/ Tick
     \/ Forget
     \/ /\ last.op = "none"
        /\ \E job \in JobDicts(now), fail \in BOOLEAN : AddJob(job, fail)
     \/ /\ last.op = "none"
        /\ \E job_id \in JobIds, job \in JobDicts(now), fail \in BOOLEAN :
             UpdateJob(job_id, job, fail)
     \/ \E batch \in Submittable, commitFails \in BOOLEAN :
          AddOrUpdateJobs(batch, commitFails)
  /\ UNCHANGED runvars

\* the store under direct calls of its methods
Spec == Init /\ [][Next]_vars

InitRun ==
  /\ InitDB
  /\ scrapers_to_run \in SeqsUpTo(Adapters, MaxScrapers)
  /\ pc = "main"
  /\ scraper = None
  /\ jobs = <<>>
  /\ offset = 0
  /\ has_more = FALSE
  /\ exc = None
  /\ run = NoRun
  /\ reports = <<>>

NextRun ==
  \/ StartRun
  \/ /\ pc = "scrape"
     /\ \E resp \in Responses(scraper, MaxBatch - Len(jobs)) : FetchPage(resp)
  \/ \E commitFails \in BOOLEAN : Reconcile(commitFails)
  \/ Finish

\* one run of main over its adapters
SpecRun == InitRun /\ [][NextRun]_vars

(***************************************************************************)
(* Properties of the store.                                                *)
(***************************************************************************)
\* the natural key of a row or of a job dictionary: (employer, external_id)
Key(r) == <<r.company, r.job_id>>

HasKey(rows, key) == \E i \in 1..Len(rows) : Key(rows[i]) = key

\* the listings of a batch that carry an id
Valid(b) == {k \in 1..Len(b) : b[k].job_id # None}

\* the key of the k-th listing is in the store when that listing is processed
KnownBefore(rows, b, k) ==
  \/ HasKey(rows, Key(b[k]))
  \/ \E j \in Valid(b) : j < k /\ Key(b[j]) = Key(b[k])

\* the last listing of the batch with the key of the k-th
LastOf(b, k) ==
  CHOOSE j \in Valid(b) :
    /\ Key(b[j]) = Key(b[k])
    /\ \A m \in Valid(b) : Key(b[m]) = Key(b[k]) => m <= j

RECURSIVE IdsFrom(_, _, _, _)
IdsFrom(rows, b, k, known) ==
  IF k > Len(b) THEN <<>>
  ELSE (IF k \in Valid(b) /\ KnownBefore(rows, b, k) = known
        THEN <<b[k].job_id>> ELSE <<>>) \o IdsFrom(rows, b, k + 1, known)

\* this step is a call of add_or_update_jobs that returned
UpsertReturned ==
  /\ last'.op = "add_or_update_jobs"
  /\ last'.ok
  /\ now' = now

\* C1: every listing whose key (employer, external_id) is not in the store when
\* it is processed is inserted and reported in new_ids, every listing whose key
\* is in the store is updated in place and reported in updated_ids; one record
\* upserted into an empty store gives new_ids = [id], updated_ids = [] and one row.
C1_UpsertByKey ==
  [][UpsertReturned =>
       LET b == last'.batch IN
       /\ last'.new = IdsFrom(store, b, 1, FALSE)
       /\ last'.upd = IdsFrom(store, b, 1, TRUE)
       /\ \A k \in Valid(b) :
            \E i \in 1..Len(store') :
              /\ Key(store'[i]) = Key(b[k])
              /\ store'[i].title = b[LastOf(b, k)].title
              /\ IF HasKey(store, Key(b[k]))
                 THEN i <= Len(store) /\ Key(store[i]) = Key(b[k])
                 ELSE i > Len(store)
       /\ (store = <<>> /\ Len(b) = 1 /\ Valid(b) = {1}) =>
            /\ last'.new = <<b[1].job_id>>
            /\ last'.upd = <<>>
            /\ Len(store') = 1]_vars

\* this step calls add_or_update_jobs again with the batch of the call before,
\* and both calls returned
UpsertAgain == UpsertReturned /\ last'.again /\ last.ok /\ last'.batch = last.batch

SameButLastUpdated(r1, r2) ==
  /\ r1.job_id = r2.job_id
  /\ r1.company = r2.company
  /\ r1.title = r2.title
  /\ r1.scraped_date = r2.scraped_date

C3_MonotonicFirstSeen ==
  [][\A i \in 1..Len(store) :
       (i <= Len(store') /\ Key(store'[i]) = Key(store[i])) =>
         /\ store'[i].scraped_date = store[i].scraped_date
         /\ store'[i].last_updated >= store[i].last_updated]_vars

\* C4: no two persisted records share the pair (employer, external_id).
C4_KeyUnique ==
  \A i, k \in 1..Len(store) : Key(store[i]) = Key(store[k]) => i = k

\* an insert was refused while the table holds two rows of one employer
C4_Witness ==
  /\ last.op = "add_job"
  /\ ~last.ok
  /\ Len(store) = 2
  /\ store[1].company = store[2].company

\* C5: a call of add_or_update_jobs that fails leaves the persisted store as it
\* was before the call and raises; a call that does not fail applies every
\* listing of the batch that carries an id.
C5_BatchAtomic ==
  [][(last'.op = "add_or_update_jobs" /\ now' = now) =>
       IF last'.ok
       THEN LET b == last'.batch IN
            \A k \in Valid(b) :
              \E i \in 1..Len(store') :
                /\ Key(store'[i]) = Key(b[k])
                /\ store'[i].title = b[LastOf(b, k)].title
                /\ store'[i].last_updated = now
       ELSE store' = store]_vars

\* a call raised after its session had changed rows, and rows remain
C5_Witness ==
  /\ last.op = "add_or_update_jobs"
  /\ ~last.ok
  /\ last.dirty
  /\ Len(store) > 0

\* C9: a batch of one employer leaves every record of another employer as it was.
C9_EmployerPartition ==
  [][(UpsertReturned /\ Len(last'.batch) > 0) =>
       \A i \in 1..Len(store) :
         store[i].company # last'.batch[1].company => store'[i] = store[i]]_vars

\* a listing that lacks a field the table requires
Malformed(job) == job.job_id = None \/ job.title = None

\* a listing that lacks its job_id
MissingId(job) == job.job_id = None

\* add_or_update_jobs(b) on the table rows at time t, without a storage error
\* at the commit, returns; the listings of b at the positions bad are not
\* persisted and not reported; every other listing is persisted and reported
SkipsExactly(rows, b, t, bad) ==
  LET s == UpsertLoop(Session(rows), b, 1, FALSE, t)
      good == (1..Len(b)) \ bad
      reported == s.new \o s.upd
  IN /\ s.ok
     /\ Len(reported) = Cardinality(good)
     /\ \A k \in good : \E m \in 1..Len(reported) : reported[m] = b[k].job_id
     /\ Len(s.rows) = Len(rows) + Len(s.new)
     /\ \A k \in good :
          \E i \in 1..Len(s.rows), j \in good :
            /\ j >= k
            /\ Key(b[j]) = Key(b[k])
            /\ Key(s.rows[i]) = Key(b[k])
            /\ s.rows[i].title = b[j].title
            /\ s.rows[i].last_updated = t
     /\ \A i \in 1..Len(s.rows) : ~Malformed(s.rows[i])

\* C11: a batch given to add_or_update_jobs that holds a malformed listing among
\* well-formed ones is applied without the malformed listing: it is not
\* persisted and is in neither new_ids nor updated_ids, and every well-formed
\* listing of the batch is persisted.
C11_SkipMalformed ==
  \A b \in Submittable :
    LET bad == {k \in 1..Len(b) : Malformed(b[k])}
    IN (bad # {} /\ bad # 1..Len(b)) => SkipsExactly(store, b, now, bad)

\* C11 for the listings that lack a job_id, among listings that have their
\* job_id and their title: these are skipped and the others persisted.
C11_SkipMissingId ==
  \A b \in Submittable :
    LET bad == {k \in 1..Len(b) : MissingId(b[k])}
    IN (bad # {} /\ bad # 1..Len(b) /\ \A k \in 1..Len(b) : b[k].title # None)
         => SkipsExactly(store, b, now, bad)

(***************************************************************************)
(* Properties of a run.                                                    *)
(***************************************************************************)
\* a pass has just finished
PassDone == run.company # None

\* the ids of the employer's records that the fetch did not observe
Unobserved(rows, company, observed) ==
  {rows[i].job_id : i \in {k \in 1..Len(rows) :
     /\ rows[k].company = company
     /\ \A m \in 1..Len(observed) : observed[m] # rows[k].job_id}}

\* C6: the retire step (mark_inactive_jobs) of a pass returns, and returns
\* exactly the employer's active records that the fetch did not observe.
C6_RetireMissing ==
  (PassDone /\ run.retire_called) =>
    /\ run.step # "retire"
    /\ {run.retired[i] : i \in 1..Len(run.retired)}
         = Unobserved(run.before, run.company, run.observed)

\* C7: a pass that fails in its fetch, its upsert or its retire step does not
\* raise out of run_scraper and is reported as an empty list, main goes on to
\* the adapters that remain, and when main is done every adapter has its report.
C7_FailureIsolation ==
  /\ pc # "crashed"
  /\ \A i \in 1..Len(reports) : reports[i].failed => reports[i].result = <<>>
  /\ (PassDone /\ run.step # "none") =>
       /\ pc \in {"main", "done"}
       /\ reports[Len(reports)].failed
  /\ pc = "done" => Len(reports) = Len(scrapers_to_run)

\* main is done after a first pass that failed and a second that failed in
\* its fetch
C7_Witness ==
  /\ pc = "done"
  /\ Len(reports) = 2
  /\ reports[1].failed
  /\ run.step = "fetch"

\* C8: a pass whose fetch succeeds upserts the fetched listings, retires with
\* exactly the ids of that fetch and returns what the upsert reported as new.
C8_ReconciliationCycle ==
  (PassDone /\ run.step # "fetch") =>
    /\ run.step # "job_ids"
    /\ run.upserted =>
         /\ run.retire_called
         /\ run.observed = JobIdsOf(run.fetched)
         /\ reports[Len(reports)].result = run.new

\* C10: scrape_jobs raises nothing: a transport or parse error ends the
\* pagination and the listings collected so far are returned.
C10_AdapterContainment ==
  /\ exc = None
  /\ pc = "reconcile" => ~has_more

\* this step is one turn of the loop of scrape_jobs
PageTurn == pc = "scrape" /\ (pc' = "reconcile" \/ offset' # offset)

\* the responses that account for this turn
Answers ==
  {resp \in Responses(scraper, MaxBatch - Len(jobs)) :
     Page(scraper, jobs, offset, resp, now) = Loop(jobs', offset', has_more', exc')}

\* the response is a page the adapter reads to its end
Readable(a, resp) ==
  /\ resp.kind = "ok"
  /\ a = "ASML" => \A k \in 1..Len(resp.content) : resp.content[k].name # Missing

\* C12: every turn of the pagination loop of scrape_jobs that reads a page
\* advances the offset by the page limit, and the loop asks for another page
\* only if the page just read was not empty and the new offset is below the
\* total the source reported; so the loop ends once the source is drained and
\* the list returned is finite.
C12_PaginationDrain ==
  [][PageTurn =>
       \A resp \in Answers :
         /\ Readable(scraper, resp) => offset' = offset + Limit(scraper)
         /\ (has_more' /\ exc' = None) =>
              /\ Readable(scraper, resp)
              /\ offset' < resp.total
              /\ resp.content # <<>>]_vars

\* C12 without the empty page: a page read advances the offset by the limit
\* and the loop goes on exactly when the new offset is below the reported total.
C12_StopsAtTotal ==
  [][PageTurn =>
       \A resp \in Answers :
         /\ Readable(scraper, resp) =>
              /\ offset' = offset + Limit(scraper)
              /\ has_more' = (offset' < resp.total)
              /\ exc' = None
         /\ (has_more' /\ exc' = None) =>
              resp.kind = "ok" /\ offset' < resp.total]_vars

====
